---- MODULE Spec2Model ----
(***************************************************************************)
(* PACS/SIMPA site: the client-side shop cart (public/js script), the      *)
(* admin session gating of the two server variants (SQLite and             *)
(* PostgreSQL) and their startup bootstrap.                                *)
(***************************************************************************)
EXTENDS Integers, Sequences, FiniteSets, Bags, TLC

VARIABLES
    \* ---- browser page (cart script) ----
    items,      \* cart.items, a JS value: [kind, elems]
    storage,    \* localStorage entry under CART_KEY: [kind, elems]
    ui,         \* what updateUI() wrote to #cartCount / #cartItems / #cartTotal
    page,       \* "boot" before cart.load() of this page ran, "ready" after
    last,       \* the last cart call: [op, key, before, threw]
    handoff,    \* what the last handler showed or handed off: [alert, mailto, body]
    \* ---- server ----
    variant,    \* "sqlite" (server.js) or "pg" (the PostgreSQL server)
    roles,      \* table roles: sequence of [id, name]
    users,      \* table users: sequence of [id, username, password, role_id]
    events,     \* table events: sequence of [id, title]
    volunteers, \* table volunteers: sequence of [id, name]
    registrations, \* table registrations: sequence of [id, event_id, name, email]
    store,      \* session store: sid -> session data
    reqs,       \* requests in flight: a bag of request records
    out,        \* the last response sent: [sid, route, kind]
    boot,       \* the startup bootstrap: [run, pcR, pcU, roleId, pc, txRoles, txUsers]
    dbFault     \* whether a statement of the bootstrap has failed so far

cartVars == <<items, storage, ui, page, last, handoff>>
serverVars ==
    <<variant, roles, users, events, volunteers, registrations, store, reqs, out, boot,
      dbFault>>
vars == <<items, storage, ui, page, last, handoff, variant, roles, users, events,
          volunteers, registrations, store, reqs, out, boot, dbFault>>

(***************************************************************************)
(* Bounds                                                                  *)
(***************************************************************************)
MaxQty == 2
\* requests the server has in flight at once
MaxReq == 2
\* rows the admin forms insert into events and volunteers in one behaviour
MaxRows == 1
\* rows of the registrations table
MaxRegs == 1
\* times the server process is started on the same database
MaxRuns == 3

(***************************************************************************)
(* Cart: products on the page                                              *)
(***************************************************************************)
Ids == {"p1", "p2"}

price_of(id) == IF id = "p1" THEN 2 ELSE 3

\* The product an add-to-cart click builds from the card's data attributes
\* and its <select> (variant is '' when the card has no select).
Product(id, v) ==
    [id |-> id, name |-> "n_" \o id, price |-> price_of(id), img |-> "img_" \o id,
     variant |-> v]

Products ==
    {Product("p1", ""), Product("p1", "L"), Product("p1", "M"), Product("p2", "")}

\* const key = product.id + (product.variant ? ':'+product.variant : '')
key(product) ==
    product.id \o (IF product.variant # "" THEN ":" \o product.variant ELSE "")

\* keys a cart call can be given: every key of a product, and one of no line
Keys == {key(p) : p \in Products} \cup {"zz"}

(***************************************************************************)
(* JS values held by cart.items                                            *)
(***************************************************************************)
Arr(s) == [kind |-> "array", elems |-> s]
NonArr(k) == [kind |-> k, elems |-> <<>>]
IsArr(v) == v.kind = "array"

\* this.items.find(i => i.key === key): index of the first such line, 0 if none
find(its, k) ==
    IF \E i \in 1..Len(its) : its[i].key = k
    THEN CHOOSE i \in 1..Len(its) :
            its[i].key = k /\ \A j \in 1..(i - 1) : its[j].key # k
    ELSE 0

qtyOf(its, k) == IF find(its, k) = 0 THEN 0 ELSE its[find(its, k)].qty

\* this.items.filter(i => i.key !== key)
RECURSIVE filterKey(_, _)
filterKey(its, k) ==
    IF its = <<>> THEN <<>>
    ELSE IF Head(its).key # k THEN <<Head(its)>> \o filterKey(Tail(its), k)
         ELSE filterKey(Tail(its), k)

\* this.items.reduce((s,i) => s + f(i), 0), left to right
RECURSIVE reduceQty(_, _)
reduceQty(its, s) ==
    IF its = <<>> THEN s ELSE reduceQty(Tail(its), s + Head(its).qty)

RECURSIVE reducePriceQty(_, _)
reducePriceQty(its, s) ==
    IF its = <<>> THEN s
    ELSE reducePriceQty(Tail(its), s + Head(its).price * Head(its).qty)

RECURSIVE reducePrice(_, _)
reducePrice(its, s) ==
    IF its = <<>> THEN s ELSE reducePrice(Tail(its), s + Head(its).price)

total_priceOnly(its) == reducePrice(its, 0)

\* total(){ return this.items.reduce((s,i)=> s + i.price*i.qty, 0); }
total(its) == reducePriceQty(its, 0)

(***************************************************************************)
(* JSON.stringify / JSON.parse of the cart                                 *)
(***************************************************************************)
\* A line is written as the object's members in insertion order:
\* { key, ...product, qty }
LineToJSON(l) ==
    << <<"key", l.key>>, <<"id", l.id>>, <<"name", l.name>>, <<"price", l.price>>,
       <<"img", l.img>>, <<"variant", l.variant>>, <<"qty", l.qty>> >>

member(m, f) == m[CHOOSE i \in 1..Len(m) : m[i][1] = f][2]

LineFromJSON_qtyOne(m) ==
    [key |-> member(m, "key"), id |-> member(m, "id"), name |-> member(m, "name"),
     price |-> member(m, "price"), img |-> member(m, "img"),
     variant |-> member(m, "variant"), qty |-> 1]

LineFromJSON(m) ==
    [key |-> member(m, "key"), id |-> member(m, "id"), name |-> member(m, "name"),
     price |-> member(m, "price"), img |-> member(m, "img"),
     variant |-> member(m, "variant"), qty |-> member(m, "qty")]

\* JSON.stringify(this.items) for an array of lines
JSONstringify(v) ==
    [kind |-> "array", elems |-> [i \in 1..Len(v.elems) |-> LineToJSON(v.elems[i])]]

\* localStorage.getItem(CART_KEY) || '[]': a missing entry (null) and the
\* empty string are falsy and read as '[]'
textOrDefault(doc) ==
    IF doc.kind \in {"missing", "empty"} THEN [kind |-> "array", elems |-> <<>>]
    ELSE doc

\* JSON.parse(text): throws on text that is not JSON, else the value
JSONparse(doc) ==
    CASE doc.kind = "invalid" -> [threw |-> TRUE, value |-> NonArr("undefined")]
      [] doc.kind = "array" ->
            [threw |-> FALSE,
             value |-> Arr([i \in 1..Len(doc.elems) |-> LineFromJSON(doc.elems[i])])]
      [] OTHER -> [threw |-> FALSE, value |-> NonArr(doc.kind)]

(***************************************************************************)
(* Cart operations on the array of lines                                   *)
(***************************************************************************)
addItems_dup(its, product) ==
    Append(its, [key |-> key(product), id |-> product.id, name |-> product.name,
                 price |-> product.price, img |-> product.img,
                 variant |-> product.variant, qty |-> 1])

addItems_idOnly(its, product) ==
    LET f == find(its, product.id) IN
    IF f # 0 THEN [its EXCEPT ![f].qty = @ + 1]
    ELSE Append(its, [key |-> product.id, id |-> product.id, name |-> product.name,
                      price |-> product.price, img |-> product.img,
                      variant |-> product.variant, qty |-> 1])

\* add: found ? found.qty += 1 : this.items.push({ key, ...product, qty:1 })
addItems(its, product) ==
    LET k == key(product)
        f == find(its, k)
    IN  IF f # 0 THEN [its EXCEPT ![f].qty = @ + 1]
        ELSE Append(its, [key |-> k, id |-> product.id, name |-> product.name,
                          price |-> product.price, img |-> product.img,
                          variant |-> product.variant, qty |-> 1])

\* inc: if(it){ it.qty++; }
incItems(its, k) ==
    LET f == find(its, k) IN IF f # 0 THEN [its EXCEPT ![f].qty = @ + 1] ELSE its

removeItems_all(its, k) == <<>>

\* remove: this.items = this.items.filter(i=>i.key!==key)
removeItems(its, k) == filterKey(its, k)

decItems_noRemove(its, k) ==
    LET f == find(its, k) IN IF f # 0 THEN [its EXCEPT ![f].qty = @ - 1] ELSE its

\* dec: if(it && it.qty > 1){ it.qty--; } else { this.remove(key); }
decItems(its, k) ==
    LET f == find(its, k)
    IN  IF f # 0 /\ its[f].qty > 1 THEN [its EXCEPT ![f].qty = @ - 1]
        ELSE removeItems(its, k)

(***************************************************************************)
(* updateUI, save and the cart's calls                                     *)
(***************************************************************************)
BlankUI == [count |-> 0, rows |-> 0, total |-> 0]

\* updateUI(): cart count, one row per line, the total.  this.items.reduce
\* raises a TypeError when items is not an array.
updateUIThrows(v) == ~IsArr(v)

updateUI(v) ==
    [count |-> reduceQty(v.elems, 0), rows |-> Len(v.elems), total |-> total(v.elems)]

save_uiOnly(v) ==
    /\ UNCHANGED storage
    /\ ui' = updateUI(v)

\* save(): localStorage.setItem(CART_KEY, JSON.stringify(this.items)); updateUI()
save(v) ==
    /\ storage' = JSONstringify(v)
    /\ ui' = updateUI(v)

Call(op, k, before, threw) == [op |-> op, key |-> k, before |-> before, threw |-> threw]

\* a call that dereferences this.items.find / .filter on a value that is no
\* array raises a TypeError before anything is written
throwsOnItems(op, k) ==
    /\ last' = Call(op, k, 0, TRUE)
    /\ UNCHANGED <<items, storage, ui, page>>

\* ---- checkout by email: the body and the handoff ----
\* n.toLocaleString('fr-FR', { style:'currency', currency:'EUR' })
euros(n) == [amount |-> n, currency |-> "EUR"]

\* `- ${i.name}${i.variant? ' ('+i.variant+')':''} x${i.qty} — ${line total}`
mailLine(i) ==
    [name |-> i.name, variant |-> IF i.variant # "" THEN " (" \o i.variant \o ")" ELSE "",
     qty |-> i.qty, total |-> euros(i.price * i.qty)]

mailBody_dropLast(its) ==
    [lines |-> [k \in 1..(Len(its) - 1) |-> mailLine(its[k])], total |-> euros(total(its))]

\* the body: the lines of cart.items.map(...), then 'Total : ' cart.total()
mailBody(its) ==
    [lines |-> [k \in 1..Len(its) |-> mailLine(its[k])], total |-> euros(total(its))]

\* what a handler showed or handed off: alert(...) and window.location.href = mailto
NoHandoff == [alert |-> FALSE, mailto |-> FALSE, body |-> mailBody(<<>>)]

\* cart.load(), called once when the page's script runs
load ==
    /\ UNCHANGED serverVars
    /\ handoff' = NoHandoff
    /\ page = "boot"
    /\ page' = "ready"
    /\ LET r == JSONparse(textOrDefault(storage))
           v == IF r.threw THEN Arr(<<>>) ELSE r.value
       IN  /\ items' = v
           /\ ui' = IF updateUIThrows(v) THEN ui ELSE updateUI(v)
           /\ last' = Call("load", "", 0, updateUIThrows(v))
    /\ UNCHANGED storage

add(product) ==
    /\ UNCHANGED serverVars
    /\ handoff' = NoHandoff
    /\ page = "ready"
    /\ IF IsArr(items)
       THEN /\ qtyOf(items.elems, key(product)) < MaxQty
            /\ items' = Arr(addItems(items.elems, product))
            /\ save(items')
            /\ last' = Call("add", key(product), qtyOf(items.elems, key(product)), FALSE)
            /\ UNCHANGED page
       ELSE throwsOnItems("add", key(product))

inc(k) ==
    /\ UNCHANGED serverVars
    /\ handoff' = NoHandoff
    /\ page = "ready"
    /\ IF IsArr(items)
       THEN /\ qtyOf(items.elems, k) < MaxQty
            /\ items' = Arr(incItems(items.elems, k))
            \* save() runs only inside if(it)
            /\ IF find(items.elems, k) # 0 THEN save(items')
               ELSE UNCHANGED <<storage, ui>>
            /\ last' = Call("inc", k, qtyOf(items.elems, k), FALSE)
            /\ UNCHANGED page
       ELSE throwsOnItems("inc", k)

dec(k) ==
    /\ UNCHANGED serverVars
    /\ handoff' = NoHandoff
    /\ page = "ready"
    /\ IF IsArr(items)
       THEN /\ items' = Arr(decItems(items.elems, k))
            /\ save(items')
            /\ last' = Call("dec", k, qtyOf(items.elems, k), FALSE)
            /\ UNCHANGED page
       ELSE throwsOnItems("dec", k)

remove(k) ==
    /\ UNCHANGED serverVars
    /\ handoff' = NoHandoff
    /\ page = "ready"
    /\ IF IsArr(items)
       THEN /\ items' = Arr(removeItems(items.elems, k))
            /\ save(items')
            /\ last' = Call("remove", k, qtyOf(items.elems, k), FALSE)
            /\ UNCHANGED page
       ELSE throwsOnItems("remove", k)

\* clear(){ this.items=[]; this.save(); }
clear ==
    /\ UNCHANGED serverVars
    /\ handoff' = NoHandoff
    /\ page = "ready"
    /\ items' = Arr(<<>>)
    /\ save(items')
    /\ last' = Call("clear", "", 0, FALSE)
    /\ UNCHANGED page

\* the #checkoutEmail click handler.  cart.items.length / cart.items.map raise
\* a TypeError when cart.items is no array.
checkout ==
    /\ UNCHANGED serverVars
    /\ page = "ready"
    /\ IF ~IsArr(items)
       THEN /\ handoff' = NoHandoff
            /\ last' = Call("checkout", "", 0, TRUE)
       ELSE IF Len(items.elems) = 0
       THEN /\ handoff' = [NoHandoff EXCEPT !.alert = TRUE]
            /\ last' = Call("checkout", "", 0, FALSE)
       ELSE /\ handoff' = [alert |-> FALSE, mailto |-> TRUE, body |-> mailBody(items.elems)]
            /\ last' = Call("checkout", "", 0, FALSE)
    /\ UNCHANGED <<items, storage, ui, page>>

\* the page is loaded again: the script builds a new cart object (items: [])
\* and runs cart.load() next
reload ==
    /\ UNCHANGED serverVars
    /\ handoff' = NoHandoff
    /\ page = "ready"
    /\ page' = "boot"
    /\ items' = Arr(<<>>)
    /\ ui' = BlankUI
    /\ last' = Call("none", "", 0, FALSE)
    /\ UNCHANGED storage


(***************************************************************************)
(* Server: tables, sessions, bcrypt                                        *)
(***************************************************************************)
Sids == {"s1"}

\* a body field the form did not send (req.body.x is undefined)
undefined == "<undefined>"

\* bcrypt.hash(password, 10)
hash(pw) == "$2b$10$" \o pw

\* bcrypt.compare(data, hash): an error when data is no string, else whether
\* hash is the hash of data
compare(pw, h) == [err |-> pw = undefined, same |-> pw # undefined /\ hash(pw) = h]

\* INSERT INTO roles (name) VALUES ('admin'),('staff'),('volunteer')
SeedRoles ==
    << [id |-> 1, name |-> "admin"], [id |-> 2, name |-> "staff"],
       [id |-> 3, name |-> "volunteer"] >>

AdminUser(role_id) ==
    [id |-> 1, username |-> "admin", password |-> hash("admin"), role_id |-> role_id]

\* an account of the staff role, as the users/roles schema provides for
StaffUser ==
    [id |-> 2, username |-> "bob", password |-> hash("bobpw"), role_id |-> 2]

Usernames == {"admin", "bob", "ghost"}
Passwords == {"admin", "bobpw", undefined}
Titles == {"", "Fete"}

\* the result of a user lookup that found no row
NoUserRow ==
    [found |-> FALSE, id |-> 0, username |-> "", password |-> "", role_name |-> ""]

\* first row of table t with t[i].f = v (by a selector), 0 if none
rowWhereName(t, n) ==
    IF \E i \in 1..Len(t) : t[i].name = n
    THEN CHOOSE i \in 1..Len(t) : t[i].name = n /\ \A j \in 1..(i - 1) : t[j].name # n
    ELSE 0

rowWhereId(t, id) ==
    IF \E i \in 1..Len(t) : t[i].id = id
    THEN CHOOSE i \in 1..Len(t) : t[i].id = id /\ \A j \in 1..(i - 1) : t[j].id # id
    ELSE 0

rowWhereUsername(t, u) ==
    IF \E i \in 1..Len(t) : t[i].username = u
    THEN CHOOSE i \in 1..Len(t) :
            t[i].username = u /\ \A j \in 1..(i - 1) : t[j].username # u
    ELSE 0

\* the name of role role_id in table roles, "" if there is none
roleName(role_id) ==
    IF rowWhereId(roles, role_id) = 0 THEN "" ELSE roles[rowWhereId(roles, role_id)].name

\* SELECT u.*, r.name AS role_name FROM users u JOIN roles r ON u.role_id = r.id
\*   WHERE u.username = ?                                  (server.js)
\* SELECT id, password FROM users WHERE username = $1      (PostgreSQL server)
\* the row found, with found = FALSE when there is none
selectUser(u) ==
    LET i == rowWhereUsername(users, u)
        joined == variant = "sqlite"
    IN  IF i = 0 \/ (joined /\ roleName(users[i].role_id) = "")
        THEN NoUserRow
        ELSE [found |-> TRUE, id |-> users[i].id, username |-> users[i].username,
              password |-> users[i].password,
              role_name |-> IF joined THEN roleName(users[i].role_id) ELSE ""]

(***************************************************************************)
(* Sessions and the admin gate                                             *)
(***************************************************************************)
Nobody == [id |-> 0, username |-> "", role |-> ""]

\* a session nobody logged in to: req.session.user and req.session.userId are
\* undefined.  A sid the store does not hold gives the request such a session.
NoSession == [user |-> Nobody, userId |-> 0]

\* server.js: if (!req.session.user || req.session.user.role !== 'admin')
\*   return res.redirect('/login'); next()
requireAdmin(sess) == ~(sess.user = Nobody \/ sess.user.role # "admin")

\* PostgreSQL server: if (req.session.userId) return next(); res.redirect('/login')
isAuthenticated(sess) == sess.userId # 0

\* the middleware in front of the three admin routes of the running variant
gate(sess) == IF variant = "sqlite" THEN requireAdmin(sess) ELSE isAuthenticated(sess)

\* the id of the user a session is logged in as, 0 if none
sessionUserId(sess) == IF variant = "sqlite" THEN sess.user.id ELSE sess.userId

\* the role the users and roles tables give the session's user, "" if none
sessionRole(sess) ==
    LET i == rowWhereId(users, sessionUserId(sess))
    IN  IF sessionUserId(sess) = 0 \/ i = 0 THEN "" ELSE roleName(users[i].role_id)

AdminRoutes == {"admin", "add-event", "add-volunteer"}

\* a request in flight: its route, its session cookie, and what its handler
\* holds of the body (login: the user row found and the password given;
\* the admin forms: the required field)
Req(route, sid, user, password, field) ==
    [route |-> route, sid |-> sid, user |-> user, password |-> password, field |-> field]

Resp(sid, route, kind) == [sid |-> sid, route |-> route, kind |-> kind]

accept(q) == reqs' = reqs (+) SetToBag({q})

finish(q, resp) ==
    /\ reqs' = reqs (-) SetToBag({q})
    /\ out' = resp

inFlight(q) == q \in BagToSet(reqs)

RECURSIVE copiesOf(_, _)
copiesOf(S, B) ==
    IF S = {} THEN 0
    ELSE LET q == CHOOSE x \in S : TRUE IN CopiesIn(q, B) + copiesOf(S \ {q}, B)

\* rows in the two tables the admin forms write, with those about to be written
rowsAndInserts ==
    Len(events) + Len(volunteers)
    + copiesOf({q \in BagToSet(reqs) : q.route \in {"add-event", "add-volunteer"}}, reqs)

\* req.session.destroy(cb): the store forgets the session, then cb runs
destroy_keep(st, sid) == st

destroy(st, sid) == [st EXCEPT ![sid] = NoSession]

\* what a successful login writes to the session, saved when the response ends:
\*   req.session.user = { id, username, role: user.role_name }   (server.js)
\*   req.session.userId = user.id                       (PostgreSQL server)
\* The session holds nothing else, so the session the request loaded when it
\* arrived does not show in what is saved.
loggedIn(user) ==
    IF variant = "sqlite"
    THEN [NoSession EXCEPT !.user = [id |-> user.id, username |-> user.username,
                                     role |-> user.role_name]]
    ELSE [NoSession EXCEPT !.userId = user.id]

hasUser(sess) == sess.user # Nobody \/ sess.userId # 0

(***************************************************************************)
(* Server: the admin routes                                                *)
(***************************************************************************)
\* GET /admin: the gate, then the dashboard queries are started
getAdmin(s) ==
    /\ BagCardinality(reqs) < MaxReq
    /\ IF gate(store[s])
       THEN /\ accept(Req("admin", s, NoUserRow, "", ""))
            /\ UNCHANGED out
       ELSE /\ out' = Resp(s, "admin", "redirect-login")
            /\ UNCHANGED reqs
    /\ UNCHANGED <<variant, registrations, roles, users, events, volunteers, store, boot, dbFault>>
    /\ UNCHANGED cartVars

\* the dashboard queries return: res.render('admin', ...) or a 500
renderAdmin(q, err) ==
    /\ inFlight(q) /\ q.route = "admin"
    /\ finish(q, Resp(q.sid, "admin", IF err THEN "500" ELSE "dashboard"))
    /\ UNCHANGED <<variant, registrations, roles, users, events, volunteers, store, boot, dbFault>>
    /\ UNCHANGED cartVars

\* POST /admin/events/add (server.js: 400 when a required field is empty),
\* POST /admin/add-event (PostgreSQL server: no presence check)
postAddEvent(s, title) ==
    /\ BagCardinality(reqs) < MaxReq
    /\ rowsAndInserts < MaxRows
    /\ IF ~gate(store[s])
       THEN /\ out' = Resp(s, "add-event", "redirect-login")
            /\ UNCHANGED reqs
       ELSE IF variant = "sqlite" /\ title \in {"", undefined}
       THEN /\ out' = Resp(s, "add-event", "400")
            /\ UNCHANGED reqs
       ELSE /\ accept(Req("add-event", s, NoUserRow, "", title))
            /\ UNCHANGED out
    /\ UNCHANGED <<variant, registrations, roles, users, events, volunteers, store, boot, dbFault>>
    /\ UNCHANGED cartVars

\* the INSERT INTO events returns
insertEvent(q, err) ==
    /\ inFlight(q) /\ q.route = "add-event"
    /\ IF err
       THEN /\ finish(q, Resp(q.sid, "add-event", "500"))
            /\ UNCHANGED events
       ELSE /\ events' = Append(events, [id |-> Len(events) + 1, title |-> q.field])
            /\ finish(q, Resp(q.sid, "add-event", "redirect-admin"))
    /\ UNCHANGED <<variant, registrations, roles, users, volunteers, store, boot, dbFault>>
    /\ UNCHANGED cartVars

\* POST /admin/volunteers/add (server.js: 400 when name or position is empty),
\* POST /admin/add-volunteer (PostgreSQL server: no presence check)
postAddVolunteer(s, name) ==
    /\ BagCardinality(reqs) < MaxReq
    /\ rowsAndInserts < MaxRows
    /\ IF ~gate(store[s])
       THEN /\ out' = Resp(s, "add-volunteer", "redirect-login")
            /\ UNCHANGED reqs
       ELSE IF variant = "sqlite" /\ name \in {"", undefined}
       THEN /\ out' = Resp(s, "add-volunteer", "400")
            /\ UNCHANGED reqs
       ELSE /\ accept(Req("add-volunteer", s, NoUserRow, "", name))
            /\ UNCHANGED out
    /\ UNCHANGED <<variant, registrations, roles, users, events, volunteers, store, boot, dbFault>>
    /\ UNCHANGED cartVars

\* the INSERT INTO volunteers returns
insertVolunteer(q, err) ==
    /\ inFlight(q) /\ q.route = "add-volunteer"
    /\ IF err
       THEN /\ finish(q, Resp(q.sid, "add-volunteer", "500"))
            /\ UNCHANGED volunteers
       ELSE /\ volunteers' = Append(volunteers, [id |-> Len(volunteers) + 1, name |-> q.field])
            /\ finish(q, Resp(q.sid, "add-volunteer", "redirect-admin"))
    /\ UNCHANGED <<variant, registrations, roles, users, events, store, boot, dbFault>>
    /\ UNCHANGED cartVars

(***************************************************************************)
(* Server: login and logout                                                *)
(***************************************************************************)
\* POST /login up to the user lookup's return (err: the query failed).  No
\* handler writes the users table, so the lookup reads the same rows whenever
\* it runs.
postLogin(s, username, password, err) ==
    /\ BagCardinality(reqs) < MaxReq
    /\ IF err
       THEN \* server.js renders the form ('Erreur de base de donnees.'), the
            \* PostgreSQL server's catch answers 500
            /\ out' = Resp(s, "login", IF variant = "sqlite" THEN "login-form" ELSE "500")
            /\ UNCHANGED reqs
       ELSE IF ~selectUser(username).found
       THEN /\ out' = Resp(s, "login", "login-form")
            /\ UNCHANGED reqs
       ELSE /\ accept(Req("login", s, selectUser(username), password, ""))
            /\ UNCHANGED out
    /\ UNCHANGED <<variant, registrations, roles, users, events, volunteers, store, boot, dbFault>>
    /\ UNCHANGED cartVars

\* bcrypt.compare returns
\*   server.js: if (err2 || !same) render the form; else set the session user
\*   PostgreSQL server: a rejected compare is caught (500); !match renders the form
loginCompare(q) ==
    /\ inFlight(q) /\ q.route = "login"
    /\ LET c == compare(q.password, q.user.password)
       IN  IF c.err /\ variant = "pg"
           THEN /\ finish(q, Resp(q.sid, "login", "500"))
                /\ UNCHANGED store
           ELSE IF c.err \/ ~c.same
           THEN /\ finish(q, Resp(q.sid, "login", "login-form"))
                /\ UNCHANGED store
           ELSE /\ store' = [store EXCEPT ![q.sid] = loggedIn(q.user)]
                /\ finish(q, Resp(q.sid, "login", "redirect-admin"))
    /\ UNCHANGED <<variant, registrations, roles, users, events, volunteers, boot, dbFault>>
    /\ UNCHANGED cartVars

\* GET /logout: req.session.destroy is started
getLogout(s) ==
    /\ BagCardinality(reqs) < MaxReq
    /\ accept(Req("logout", s, NoUserRow, "", ""))
    /\ UNCHANGED <<variant, registrations, roles, users, events, volunteers, store, out, boot, dbFault>>
    /\ UNCHANGED cartVars

\* the session is destroyed and the callback redirects to /
logoutDone(q) ==
    /\ inFlight(q) /\ q.route = "logout"
    /\ store' = destroy(store, q.sid)
    /\ finish(q, Resp(q.sid, "logout", "redirect-home"))
    /\ UNCHANGED <<variant, registrations, roles, users, events, volunteers, boot, dbFault>>
    /\ UNCHANGED cartVars

(***************************************************************************)
(* Server: event registration                                              *)
(***************************************************************************)
\* what the registration form can send as event reference, name and email
EventRefs == {undefined, "", "1", "2", "x"}
Names == {undefined, "", "Ann"}
Emails == {undefined, "", "a@b"}

\* !x for a body field: undefined and '' are falsy
falsy(x) == x \in {undefined, ""}

\* parseInt(req.params.id, 10), and the INTEGER affinity of the event_id
\* column; 0 stands for a value that is no integer (NaN, text), which is the
\* id of no event
parseInt(x) == IF x = "1" THEN 1 ELSE IF x = "2" THEN 2 ELSE 0

\* FOREIGN KEY(event_id) REFERENCES events(id): the events row referenced
eventExists(id) == \E i \in 1..Len(events) : events[i].id = id

registrationRow(event_id, name, email) ==
    [id |-> Len(registrations) + 1, event_id |-> event_id, name |-> name, email |-> email]

\* server.js POST /events/register: the presence check, then the INSERT and
\* its callback.  The database is opened without PRAGMA foreign_keys = ON,
\* so SQLite does not enforce the declared reference to events(id).
sqRegister(event_id, name, email, err) ==
    IF falsy(event_id) \/ falsy(name) \/ falsy(email)
    THEN /\ out' = Resp("", "register", "400")
         /\ UNCHANGED registrations
    ELSE IF err
    THEN /\ out' = Resp("", "register", "500")
         /\ UNCHANGED registrations
    ELSE /\ registrations' =
               Append(registrations, registrationRow(parseInt(event_id), name, email))
         /\ out' = Resp("", "register", "redirect-home")

\* PostgreSQL server POST /register/:id: no presence check; the route only
\* matches a non-empty :id (404 otherwise).  The INSERT rejects (500) when
\* the id is NaN, when name or email is NULL, or when no such event exists:
\* the registrations table is not created in this file and is taken as
\* server.js declares it (NOT NULL columns, reference to events), which
\* PostgreSQL enforces.
pgRegister(event_id, name, email, err) ==
    IF falsy(event_id)
    THEN /\ out' = Resp("", "register", "404")
         /\ UNCHANGED registrations
    ELSE IF \/ err
            \/ parseInt(event_id) = 0
            \/ name = undefined \/ email = undefined
            \/ ~eventExists(parseInt(event_id))
    THEN /\ out' = Resp("", "register", "500")
         /\ UNCHANGED registrations
    ELSE /\ registrations' =
               Append(registrations, registrationRow(parseInt(event_id), name, email))
         /\ out' = Resp("", "register", "redirect-home")

\* a registration request, with the INSERT it makes (err: the statement fails)
postRegister(event_id, name, email, err) ==
    /\ Len(registrations) < MaxRegs
    /\ IF variant = "sqlite" THEN sqRegister(event_id, name, email, err)
       ELSE pgRegister(event_id, name, email, err)
    /\ UNCHANGED <<variant, roles, users, events, volunteers, store, reqs, boot, dbFault>>
    /\ UNCHANGED cartVars

(***************************************************************************)
(* Startup bootstrap: roles and the default admin                          *)
(***************************************************************************)
\* boot.run: which start of the process this is (0: not started)
\* server.js: pcR / pcU are the places of the two callback chains
\* PostgreSQL server: pc is the place in ensureAdmin, tx* the transaction's
\*   uncommitted tables
BootIdle ==
    [run |-> 0, pcR |-> "done", pcU |-> "done", roleId |-> 0, pc |-> "done",
     txRoles |-> <<>>, txUsers |-> <<>>]

bootDone == boot.pcR = "done" /\ boot.pcU = "done" /\ boot.pc = "done"

\* the process starts: server.js queues its statements inside db.serialize,
\* the PostgreSQL server calls ensureAdmin()
start ==
    /\ bootDone
    /\ boot.run < MaxRuns
    /\ boot' = IF variant = "sqlite"
               THEN [BootIdle EXCEPT !.run = boot.run + 1, !.pcR = "count", !.pcU = "count"]
               ELSE [BootIdle EXCEPT !.run = boot.run + 1, !.pc = "start"]
    /\ UNCHANGED <<variant, registrations, roles, users, events, volunteers, store, reqs, out, dbFault>>
    /\ UNCHANGED cartVars

seedNeeded_inverted(cnt) == cnt # 0

\* if (row && row.cnt === 0) / if (roleCount === 0)
seedNeeded(cnt) == cnt = 0

\* INSERT INTO roles (name) VALUES ('admin'),('staff'),('volunteer') on table
\* t: name is UNIQUE, so the statement fails (ok = FALSE, no row added) when
\* one of the names is there; the new ids follow the rows of t
insertRoles(t) ==
    [ok   |-> \A i \in 1..Len(t), j \in 1..Len(SeedRoles) : t[i].name # SeedRoles[j].name,
     rows |-> t \o [j \in 1..Len(SeedRoles) |->
                      [SeedRoles[j] EXCEPT !.id = Len(t) + j]]]

\* db.get('SELECT COUNT(*) AS cnt FROM roles', cb): a failed query gives no row
sqCountRoles ==
    /\ variant = "sqlite" /\ boot.pcR = "count"
    /\ \E err \in BOOLEAN :
          /\ boot' = [boot EXCEPT
                        !.pcR = IF ~err /\ seedNeeded(Len(roles)) THEN "insert" ELSE "done"]
          /\ dbFault' = (dbFault \/ err)
    /\ UNCHANGED <<variant, registrations, roles, users, events, volunteers, store, reqs, out>>
    /\ UNCHANGED cartVars

\* stmt.run('admin', 'staff', 'volunteer'): no callback, so a failure goes
\* unnoticed
sqInsertRoles ==
    /\ variant = "sqlite" /\ boot.pcR = "insert"
    /\ \E err \in BOOLEAN :
          /\ roles' = IF err \/ ~insertRoles(roles).ok THEN roles
                      ELSE insertRoles(roles).rows
          /\ dbFault' = (dbFault \/ err)
    /\ boot' = [boot EXCEPT !.pcR = "done"]
    /\ UNCHANGED <<variant, registrations, users, events, volunteers, store, reqs, out>>
    /\ UNCHANGED cartVars

\* db.get('SELECT COUNT(*) AS cnt FROM users', cb), queued behind the roles count
sqCountUsers ==
    /\ variant = "sqlite" /\ boot.pcU = "count" /\ boot.pcR # "count"
    /\ \E err \in BOOLEAN :
          /\ boot' = [boot EXCEPT
                        !.pcU = IF ~err /\ seedNeeded(Len(users)) THEN "hash" ELSE "done"]
          /\ dbFault' = (dbFault \/ err)
    /\ UNCHANGED <<variant, registrations, roles, users, events, volunteers, store, reqs, out>>
    /\ UNCHANGED cartVars

\* bcrypt.hash('admin', 10, cb): if (!errHash) the admin role is looked up
sqHash ==
    /\ variant = "sqlite" /\ boot.pcU = "hash"
    /\ \E errHash \in BOOLEAN :
          /\ boot' = [boot EXCEPT !.pcU = IF errHash THEN "done" ELSE "role"]
          /\ dbFault' = (dbFault \/ errHash)
    /\ UNCHANGED <<variant, registrations, roles, users, events, volunteers, store, reqs, out>>
    /\ UNCHANGED cartVars

\* db.get('SELECT id FROM roles WHERE name = ?', ['admin'], cb):
\* const roleId = roleRow ? roleRow.id : 1
sqSelectRole ==
    /\ variant = "sqlite" /\ boot.pcU = "role"
    /\ \E err \in BOOLEAN :
          /\ boot' = [boot EXCEPT
                        !.pcU = "insert",
                        !.roleId = IF err \/ rowWhereName(roles, "admin") = 0 THEN 1
                                   ELSE roles[rowWhereName(roles, "admin")].id]
          /\ dbFault' = (dbFault \/ err)
    /\ UNCHANGED <<variant, registrations, roles, users, events, volunteers, store, reqs, out>>
    /\ UNCHANGED cartVars

\* db.run('INSERT INTO users (username, password, role_id) VALUES (?, ?, ?)'):
\* username is UNIQUE; no callback, so a failure goes unnoticed
sqInsertUser ==
    /\ variant = "sqlite" /\ boot.pcU = "insert"
    /\ \E err \in BOOLEAN :
          /\ users' = IF err \/ rowWhereUsername(users, "admin") # 0 THEN users
                      ELSE Append(users, [AdminUser(boot.roleId) EXCEPT !.id = Len(users) + 1])
          /\ dbFault' = (dbFault \/ err)
    /\ boot' = [boot EXCEPT !.pcU = "done"]
    /\ UNCHANGED <<variant, registrations, roles, events, volunteers, store, reqs, out>>
    /\ UNCHANGED cartVars

\* ensureAdmin: pool.connect(), BEGIN, CREATE TABLE IF NOT EXISTS.  A failed
\* connect rejects ensureAdmin (logged by the caller); a failed statement
\* goes to the catch block.
pgBegin ==
    /\ variant = "pg" /\ boot.pc = "start"
    /\ \E connectErr \in BOOLEAN, err \in BOOLEAN :
          /\ boot' = [boot EXCEPT
                        !.pc = IF connectErr THEN "done" ELSE IF err THEN "failed" ELSE "tx",
                        !.txRoles = roles, !.txUsers = users]
          /\ dbFault' = (dbFault \/ connectErr \/ err)
    /\ UNCHANGED <<variant, registrations, roles, users, events, volunteers, store, reqs, out>>
    /\ UNCHANGED cartVars

\* SELECT COUNT(*) FROM roles; if (roleCount === 0) INSERT INTO roles ...
pgSeedRoles ==
    /\ variant = "pg" /\ boot.pc = "tx"
    /\ \E err \in BOOLEAN :
          /\ boot' = IF err THEN [boot EXCEPT !.pc = "failed"]
                     ELSE IF ~seedNeeded(Len(boot.txRoles))
                     THEN [boot EXCEPT !.pc = "roles"]
                     ELSE IF ~insertRoles(boot.txRoles).ok
                     THEN [boot EXCEPT !.pc = "failed"]
                     ELSE [boot EXCEPT !.pc = "roles",
                                       !.txRoles = insertRoles(boot.txRoles).rows]
          /\ dbFault' = (dbFault \/ err)
    /\ UNCHANGED <<variant, registrations, roles, users, events, volunteers, store, reqs, out>>
    /\ UNCHANGED cartVars

\* SELECT id FROM users WHERE username = 'admin'; if there is none: hash,
\* SELECT id FROM roles WHERE name = 'admin' LIMIT 1 (roleRes.rows[0].id raises
\* when there is no such role), INSERT INTO users
pgSeedAdmin ==
    /\ variant = "pg" /\ boot.pc = "roles"
    /\ \E err \in BOOLEAN :
          /\ boot' =
               IF rowWhereUsername(boot.txUsers, "admin") # 0
               THEN [boot EXCEPT !.pc = IF err THEN "failed" ELSE "admin"]
               ELSE IF err \/ rowWhereName(boot.txRoles, "admin") = 0
               THEN [boot EXCEPT !.pc = "failed"]
               ELSE [boot EXCEPT
                       !.pc = "admin",
                       !.roleId = boot.txRoles[rowWhereName(boot.txRoles, "admin")].id,
                       !.txUsers =
                           Append(boot.txUsers,
                                  [AdminUser(boot.txRoles[rowWhereName(boot.txRoles, "admin")].id)
                                     EXCEPT !.id = Len(boot.txUsers) + 1])]
          /\ dbFault' = (dbFault \/ err)
    /\ UNCHANGED <<variant, registrations, roles, users, events, volunteers, store, reqs, out>>
    /\ UNCHANGED cartVars

\* COMMIT: the transaction's tables become the database's
pgCommit ==
    /\ variant = "pg" /\ boot.pc = "admin"
    /\ \E err \in BOOLEAN :
          IF err
          THEN /\ boot' = [boot EXCEPT !.pc = "failed"]
               /\ dbFault' = TRUE
               /\ UNCHANGED <<roles, users>>
          ELSE /\ roles' = boot.txRoles
               /\ users' = boot.txUsers
               /\ boot' = [boot EXCEPT !.pc = "done"]
               /\ UNCHANGED dbFault
    /\ UNCHANGED <<variant, registrations, events, volunteers, store, reqs, out>>
    /\ UNCHANGED cartVars

\* catch (err): ROLLBACK, console.error; finally client.release()
pgRollback ==
    /\ variant = "pg" /\ boot.pc = "failed"
    /\ boot' = [boot EXCEPT !.pc = "done", !.txRoles = roles, !.txUsers = users]
    /\ UNCHANGED <<variant, registrations, roles, users, events, volunteers, store, reqs, out, dbFault>>
    /\ UNCHANGED cartVars

(***************************************************************************)
(* Specifications                                                          *)
(***************************************************************************)
\* well-formed carts an earlier visit may have left in localStorage
StoredCarts ==
    {<<>>} \cup {addItems(<<>>, p) : p \in Products}
           \cup {addItems(addItems(<<>>, p), q) : p, q \in Products}

\* what localStorage may hold under CART_KEY when the page is opened
StoredDocs ==
    {[kind |-> k, elems |-> <<>>] :
        k \in {"missing", "empty", "invalid", "null", "object", "number"}}
    \cup {JSONstringify(Arr(c)) : c \in StoredCarts}

CartInit ==
    /\ items = Arr(<<>>)
    /\ ui = BlankUI
    /\ page = "boot"
    /\ last = Call("none", "", 0, FALSE)
    /\ handoff = NoHandoff

ServerIdle ==
    /\ events = <<>>
    /\ volunteers = <<>>
    /\ registrations = <<>>
    /\ store = [s \in Sids |-> NoSession]
    /\ reqs = EmptyBag
    /\ out = Resp("", "", "")
    /\ dbFault = FALSE

\* a first visit: nothing stored
InitCart ==
    /\ CartInit
    /\ storage = [kind |-> "missing", elems |-> <<>>]
    /\ variant = "sqlite" /\ roles = SeedRoles /\ users = <<AdminUser(1)>>
    /\ boot = BootIdle
    /\ ServerIdle

\* a visit with anything at all under CART_KEY
InitLoad ==
    /\ CartInit
    /\ storage \in StoredDocs
    /\ variant = "sqlite" /\ roles = SeedRoles /\ users = <<AdminUser(1)>>
    /\ boot = BootIdle
    /\ ServerIdle

\* a running server of either variant, bootstrapped, with a staff account
InitServer ==
    /\ CartInit
    /\ storage = [kind |-> "missing", elems |-> <<>>]
    /\ variant \in {"sqlite", "pg"}
    /\ roles = SeedRoles
    /\ users = <<AdminUser(1), StaffUser>>
    /\ boot = [BootIdle EXCEPT !.run = 1]
    /\ ServerIdle

\* a server of either variant before its first start, on an empty database
InitBoot ==
    /\ CartInit
    /\ storage = [kind |-> "missing", elems |-> <<>>]
    /\ variant \in {"sqlite", "pg"}
    /\ roles = <<>>
    /\ users = <<>>
    /\ boot = BootIdle
    /\ ServerIdle

\* every request the model sends
Requests ==
    {Req("admin", s, NoUserRow, "", "") : s \in Sids}
    \cup {Req("logout", s, NoUserRow, "", "") : s \in Sids}
    \cup {Req(rt, s, NoUserRow, "", t) :
            rt \in {"add-event", "add-volunteer"}, s \in Sids, t \in Titles}
    \cup {Req("login", s, selectUser(u), p, "") : s \in Sids, u \in Usernames, p \in Passwords}

NextCart ==
    \/ load
    \/ \E p \in Products : add(p)
    \/ \E k \in Keys : inc(k)
    \/ \E k \in Keys : dec(k)
    \/ \E k \in Keys : remove(k)
    \/ clear
    \/ checkout
    \/ reload

NextServer ==
    \/ \E s \in Sids : getAdmin(s)
    \/ \E q \in Requests, err \in BOOLEAN : renderAdmin(q, err)
    \/ \E s \in Sids, t \in Titles : postAddEvent(s, t)
    \/ \E q \in Requests, err \in BOOLEAN : insertEvent(q, err)
    \/ \E s \in Sids, n \in Titles : postAddVolunteer(s, n)
    \/ \E q \in Requests, err \in BOOLEAN : insertVolunteer(q, err)
    \/ \E s \in Sids, u \in Usernames, p \in Passwords, err \in BOOLEAN :
          postLogin(s, u, p, err)
    \/ \E q \in Requests : loginCompare(q)
    \/ \E s \in Sids : getLogout(s)
    \/ \E q \in Requests : logoutDone(q)

NextBoot ==
    \/ start
    \/ sqCountRoles
    \/ sqInsertRoles
    \/ sqCountUsers
    \/ sqHash
    \/ sqSelectRole
    \/ sqInsertUser
    \/ pgBegin
    \/ pgSeedRoles
    \/ pgSeedAdmin
    \/ pgCommit
    \/ pgRollback

\* registrations and event creation (which takes the admin's login)
NextRegister ==
    \/ \E e \in EventRefs, n \in Names, m \in Emails, err \in BOOLEAN :
          postRegister(e, n, m, err)
    \/ \E s \in Sids : postLogin(s, "admin", "admin", FALSE)
    \/ \E q \in Requests : loginCompare(q)
    \/ \E s \in Sids, t \in Titles : postAddEvent(s, t)
    \/ \E q \in Requests, err \in BOOLEAN : insertEvent(q, err)

SpecCart == InitCart /\ [][NextCart]_vars
SpecLoad == InitLoad /\ [][NextCart]_vars
SpecServer == InitServer /\ [][NextServer]_vars
SpecBoot == InitBoot /\ [][NextBoot]_vars
SpecRegister == InitServer /\ [][NextRegister]_vars

(***************************************************************************)
(* Helpers of the properties                                               *)
(***************************************************************************)
lines == items.elems

RECURSIVE sumOver(_, _)
\* the sum of price * qty over the lines at the indexes in S
sumOver(its, S) ==
    IF S = {} THEN 0
    ELSE LET i == CHOOSE x \in S : TRUE
         IN  its[i].price * its[i].qty + sumOver(its, S \ {i})

\* its with the line at index f taken out, the others in their order
without(its, f) == [i \in 1..(Len(its) - 1) |-> IF i < f THEN its[i] ELSE its[i + 1]]

\* its with only the qty of the line at index f changed, to n
withQty(its, f, n) ==
    [i \in 1..Len(its) |-> IF i = f THEN [its[i] EXCEPT !.qty = n] ELSE its[i]]

(***************************************************************************)
(* Cart properties                                                         *)
(***************************************************************************)
\* C2: starting from an empty cart, after any sequence of add, inc, dec,
\* remove and clear calls (any products, any keys, present or absent), every
\* line of cart.items has qty >= 1.
C2_QtyAtLeastOne ==
    IsArr(items) /\ \A i \in 1..Len(lines) : lines[i].qty >= 1

\* a dec of a line at qty 1 has run and left other lines in the cart
C2_Witness ==
    last.op = "dec" /\ last.before = 1 /\ ~last.threw /\ Len(lines) >= 1

\* C3: starting from an empty cart, after any sequence of add, inc, dec,
\* remove and clear calls, no two lines of cart.items have the same key.
C3_UniqueKeys ==
    \A i, j \in 1..Len(lines) : i # j => lines[i].key # lines[j].key

\* an add of a product whose key was in the cart has run, beside another line
C3_Witness ==
    last.op = "add" /\ last.before >= 1 /\ Len(lines) >= 2

\* C4: add(product) computes key = id when the variant is empty and
\* key = id:variant otherwise; if a line with that key exists its qty grows by
\* exactly 1 and the number, order and content of the other lines are
\* unchanged; otherwise one new line with qty 1 is appended at the end and the
\* existing lines are unchanged.
C4_Add ==
    [][\A p \in Products :
          add(p) =>
             LET k == IF p.variant = "" THEN p.id ELSE p.id \o ":" \o p.variant
                 at == {i \in 1..Len(lines) : lines[i].key = k}
             IN  /\ IsArr(items')
                 /\ IF at # {}
                    THEN \E f \in at :
                            items'.elems = withQty(lines, f, lines[f].qty + 1)
                    ELSE items'.elems =
                            lines \o <<[key |-> k, id |-> p.id, name |-> p.name,
                                        price |-> p.price, img |-> p.img,
                                        variant |-> p.variant, qty |-> 1]>>]_vars

\* the same product was added twice (one line, qty 2) beside a line of the
\* same id with another variant
C4_Witness ==
    /\ last.op = "add" /\ last.before = 1
    /\ \E i, j \in 1..Len(lines) :
          /\ lines[i].key = last.key /\ lines[i].qty = 2
          /\ i # j /\ lines[j].id = lines[i].id /\ lines[j].variant # lines[i].variant

\* C5: dec(key) on a line at qty 1 removes that line; dec(key) on a line at
\* qty n > 1 leaves it in place with qty n-1; inc(key) on an existing line
\* raises its qty by exactly 1.  In each case all other lines are unchanged.
C5_IncDec ==
    [][\A k \in Keys :
          LET at == {i \in 1..Len(lines) : lines[i].key = k}
          IN  /\ (dec(k) /\ at # {}) =>
                    \E f \in at :
                       items'.elems = IF lines[f].qty = 1 THEN without(lines, f)
                                      ELSE withQty(lines, f, lines[f].qty - 1)
              /\ (inc(k) /\ at # {}) =>
                    \E f \in at : items'.elems = withQty(lines, f, lines[f].qty + 1)]_vars

\* a dec of a line at qty 1 has run: the line is gone, another is still there
C5_Witness ==
    /\ last.op = "dec" /\ last.before = 1
    /\ \A i \in 1..Len(lines) : lines[i].key # last.key
    /\ Len(lines) >= 1

\* C6: in every state reachable through add, inc, dec, remove and clear,
\* total() is the sum over the current lines of price * qty (0 when empty).
C6_Total ==
    IsArr(items) => total(lines) = sumOver(lines, 1..Len(lines))

\* two lines of different prices, one of them at qty 2: total 2*2 + 3
C6_Witness ==
    /\ Len(lines) = 2 /\ lines[1].qty = 2 /\ lines[1].price = 2
    /\ lines[2].qty = 1 /\ lines[2].price = 3
    /\ total(lines) = 7

\* C7: whatever the persisted cart entry holds (missing, text that is not
\* JSON, JSON that is no array of lines such as null, an object or a number),
\* load() raises no error to its caller and leaves cart.items the empty
\* array, unless the entry is an array of lines, which cart.items then equals.
C7_LoadNeverRaises ==
    last.op = "load" =>
       /\ ~last.threw
       /\ items = IF storage.kind = "array"
                  THEN Arr([i \in 1..Len(storage.elems) |-> LineFromJSON(storage.elems[i])])
                  ELSE Arr(<<>>)

\* the last call was one that changes the cart or is written to save in any
\* case: add, dec, remove, clear, or inc of a key that was present
wroteCart ==
    \/ last.op \in {"add", "dec", "remove", "clear"}
    \/ (last.op = "inc" /\ last.before > 0)

\* C13 (as stated): after load() has run, every add, inc, dec, remove or
\* clear call that returns, with a present or an absent key, leaves the
\* persisted entry equal to the serialization of cart.items.
C13_PersistedAfterCall ==
    (page = "ready" /\ ~last.threw /\ last.op \in {"add", "inc", "dec", "remove", "clear"})
        => storage = JSONstringify(items)

\* C13 (amended): after load() has run, every add, dec, remove or clear call
\* (present or absent key) and every inc of a present key returns with the
\* persisted entry equal to the serialization of cart.items; an inc of an
\* absent key writes nothing and changes neither cart.items nor the
\* persisted entry.
C13_PersistedAfterMutation ==
    /\ []((page = "ready" /\ ~last.threw /\ wroteCart) => storage = JSONstringify(items))
    /\ [][\A k \in Keys :
             (inc(k) /\ IsArr(items) /\ find(items.elems, k) = 0)
                => (items' = items /\ storage' = storage)]_vars

\* a dec of an absent key has returned on a cart of two lines, persisted
C13_Witness ==
    /\ page = "ready" /\ last.op = "dec" /\ last.before = 0 /\ ~last.threw
    /\ Len(lines) >= 2
    /\ storage = JSONstringify(items)

\* the lines a persisted entry holds, read member by member in the order of
\* the stored schema (key, id, name, price, img, variant, qty); none when
\* nothing is stored
storedLines(doc) ==
    IF doc.kind # "array" THEN <<>>
    ELSE [i \in 1..Len(doc.elems) |->
            [key |-> doc.elems[i][1][2], id |-> doc.elems[i][2][2],
             name |-> doc.elems[i][3][2], price |-> doc.elems[i][4][2],
             img |-> doc.elems[i][5][2], variant |-> doc.elems[i][6][2],
             qty |-> doc.elems[i][7][2]]]

\* C14: a reload loses no completed mutation.  Starting from an empty cart,
\* whenever the page is reloaded the persisted entry holds exactly the lines
\* of cart.items, in order and field by field, the reload leaves the entry
\* alone, and the load() of the fresh cart returns without raising with
\* cart.items equal to the lines the entry holds.
C14_ReloadRoundTrip ==
    [][/\ reload => /\ storage' = storage
                    /\ storage.kind \in {"missing", "array"}
                    /\ storedLines(storage) = lines
       /\ load => /\ ~last'.threw
                  /\ items' = Arr(storedLines(storage))]_vars

\* load() has run on a reloaded page and brought back two lines, one of them
\* with a variant and quantity 2
C14_Witness ==
    /\ page = "ready" /\ last.op = "load" /\ ~last.threw
    /\ Len(lines) = 2
    /\ \E i \in 1..Len(lines) : lines[i].variant = "L" /\ lines[i].qty = 2

\* C15: checkout hands off to the mail client exactly when the cart has at
\* least one line; on an empty cart it shows the warning and does nothing
\* else; in both cases cart.items and the persisted cart are unchanged; the
\* body has one line per cart line, in order (name, quantity, line total),
\* followed by the order total.
C15_Checkout ==
    [][checkout =>
          /\ items' = items /\ storage' = storage
          /\ handoff'.mailto => (IsArr(items) /\ Len(lines) >= 1)
          /\ (IsArr(items) /\ Len(lines) >= 1) => (handoff'.mailto /\ ~handoff'.alert)
          /\ (IsArr(items) /\ lines = <<>>)
                => (handoff'.alert /\ ~handoff'.mailto /\ ui' = ui)
          /\ handoff'.mailto =>
                /\ Len(handoff'.body.lines) = Len(lines)
                /\ \A k \in 1..Len(lines) :
                      /\ handoff'.body.lines[k].name = lines[k].name
                      /\ handoff'.body.lines[k].qty = lines[k].qty
                      /\ handoff'.body.lines[k].total.amount = lines[k].price * lines[k].qty
                /\ handoff'.body.total.amount = sumOver(lines, 1..Len(lines))]_vars

\* checkout has handed a cart of two lines to the mail client
C15_Witness ==
    /\ last.op = "checkout" /\ ~last.threw
    /\ handoff.mailto /\ Len(handoff.body.lines) = 2 /\ Len(lines) = 2

\* ---- properties of the server ----
\* a request of session s arrives at one of the three admin routes
AdminArrival(s) ==
    \/ getAdmin(s)
    \/ \E t \in Titles : postAddEvent(s, t)
    \/ \E n \in Titles : postAddVolunteer(s, n)

\* the arriving request is answered by a redirect to /login: no handler is
\* started and no row is inserted
Redirected(s) ==
    /\ out'.sid = s /\ out'.route \in AdminRoutes /\ out'.kind = "redirect-login"
    /\ reqs' = reqs
    /\ events' = events /\ volunteers' = volunteers

\* the login request's username exists and its password hashes to the stored hash
validCredentials(q) ==
    \E i \in 1..Len(users) :
        /\ users[i].username = q.user.username
        /\ q.password # undefined
        /\ users[i].password = hash(q.password)

\* C1: in both variants a request to an admin route whose session does not
\* belong to a logged-in user of role 'admin' is redirected to /login, its
\* handler does not run and no row is inserted.
C1_AdminOnly ==
    [][\A s \in Sids :
          (sessionRole(store[s]) # "admin" /\ AdminArrival(s)) => Redirected(s)]_vars

\* C8: in both variants a POST /login with an unknown username, or with a
\* password that does not match the stored hash, renders the login form and
\* writes nothing to the session; a session gets (or changes) its logged-in
\* user only when a login with an existing username and the matching password
\* completes.  (A failing user lookup is a database fault, not a failed login.)
C8_FailedLogin ==
    [][/\ \A s \in Sids, u \in Usernames, p \in Passwords :
             (postLogin(s, u, p, FALSE) /\ ~selectUser(u).found)
                => (out' = Resp(s, "login", "login-form") /\ store' = store)
       /\ \A q \in Requests :
             (loginCompare(q) /\ ~validCredentials(q))
                => (out' = Resp(q.sid, "login", "login-form") /\ store' = store)
       /\ \A s \in Sids :
             (store'[s] # store[s] /\ hasUser(store'[s]))
                => \E q \in Requests :
                      q.sid = s /\ validCredentials(q) /\ loginCompare(q)]_vars

\* C9: when GET /logout completes for a session the session has no user; a
\* session without a user gets one only when a POST /login with valid
\* credentials completes for it; and every request a session without a user
\* sends to an admin route is redirected to /login.  So from the completion
\* of a logout until such a login, in any order of requests, every admin
\* request of the session is redirected.
C9_LogoutGates ==
    [][/\ \A q \in Requests : logoutDone(q) => ~hasUser(store'[q.sid])
       /\ \A s \in Sids :
             (~hasUser(store[s]) /\ hasUser(store'[s]))
                => \E q \in Requests :
                      q.sid = s /\ validCredentials(q) /\ loginCompare(q)
       /\ \A s \in Sids :
             (~hasUser(store[s]) /\ AdminArrival(s)) => Redirected(s)]_vars

\* an event was inserted (so s1 had logged in), s1 has no user any more (so it
\* logged out after that), and the last response, later than the logout's, is
\* the redirect of an admin request of s1
C9_Witness ==
    /\ out = Resp("s1", "admin", "redirect-login")
    /\ ~hasUser(store["s1"])
    /\ Len(events) >= 1
    /\ reqs = EmptyBag

\* ---- properties of the bootstrap ----
adminUsers == {i \in 1..Len(users) : users[i].username = "admin"}

\* C10: on a database that was empty before the first start, from the second
\* start on (no statement having failed) there are exactly the three roles
\* admin, staff and volunteer and exactly one user named admin, and no step
\* of a second or later run changes the roles or the users table.
C10_Idempotent ==
    /\ []((boot.run >= 2 /\ ~dbFault)
            => /\ Len(roles) = 3
               /\ {roles[i].name : i \in 1..Len(roles)} = {"admin", "staff", "volunteer"}
               /\ Cardinality(adminUsers) = 1)
    /\ [][(boot.run >= 2 /\ ~dbFault) => (roles' = roles /\ users' = users)]_vars

\* the second run has finished without a fault
C10_Witness ==
    /\ boot.run = 2 /\ bootDone /\ ~dbFault
    /\ Len(roles) = 3 /\ Cardinality(adminUsers) = 1

\* C12: the bootstrap seeds the roles and the admin user as one unit: in
\* every state the database can be left in, whether the bootstrap finished,
\* failed or is stopped where it is, the roles table is populated exactly
\* when the admin user exists.
C12_AtomicBootstrap == (roles # <<>>) <=> (adminUsers # {})

\* ---- properties of the registration route ----
\* C11: in both variants a registration request whose event reference, name
\* or email is missing or empty is answered with status 400 and inserts no
\* row into registrations.
C11_RegisterValidation ==
    [][\A e \in EventRefs, n \in Names, m \in Emails, err \in BOOLEAN :
          (postRegister(e, n, m, err) /\ (falsy(e) \/ falsy(n) \/ falsy(m)))
             => (out'.kind = "400" /\ registrations' = registrations)]_vars

\* C16: in every reachable state of the server, after any sequence of
\* registration and create-event requests, every row of registrations has an
\* event_id that is the id of an existing row of events.
C16_RegistrationsReferenceEvents ==
    \A i \in 1..Len(registrations) : eventExists(registrations[i].event_id)

====
